---- MODULE Spec2Model ----
(***************************************************************************)
(* A model of rust-sysfs-pwm: the blocking handles PwmChip / Pwm           *)
(* (src/src/pwm.rs) and the non-blocking handles PwmChipAsync / PwmAsync   *)
(* (src/src/pwm_async.rs) acting on the sysfs tree /sys/class/pwm.         *)
(*                                                                         *)
(* Text is a sequence of one-character strings.  An unsigned 32-bit value  *)
(* is the pair <<hi, lo>> of its two 16-bit halves, so that the whole u32  *)
(* range, its decimal formatting and the overflow of its decimal parsing   *)
(* are computed exactly.                                                   *)
(***************************************************************************)
EXTENDS Integers, Sequences, FiniteSets

----------------------------------------------------------------------------
(* Unsigned 32-bit integers                                                *)

Half == 65535 + 1

U32(n) == <<n \div Half, n % Half>>

U32Max == <<Half - 1, Half - 1>>

\* v * 10 + d on 32 bits: ok is FALSE when the result does not fit
MulAdd10(v, d) ==
    LET lo == v[2] * 10 + d
        hi == v[1] * 10 + (lo \div Half)
    IN  [ok |-> hi < Half, val |-> <<hi % Half, lo % Half>>]

\* v divided by ten: quotient and remainder
DivMod10(v) ==
    LET t == (v[1] % 10) * Half + v[2]
    IN  [q |-> <<v[1] \div 10, t \div 10>>, r |-> t % 10]

----------------------------------------------------------------------------
(* Text: str::trim, str::split_whitespace, u32::from_str, u32::to_string   *)

Digits == <<"0", "1", "2", "3", "4", "5", "6", "7", "8", "9">>

IsDigit(c) == \E i \in 1..10 : Digits[i] = c

DigitVal(c) == (CHOOSE i \in 1..10 : Digits[i] = c) - 1

IsWhitespace(c) == c \in {" ", "\n", "\t"}

RECURSIVE TrimStart(_)
TrimStart(s) ==
    IF s # <<>> /\ IsWhitespace(Head(s)) THEN TrimStart(Tail(s)) ELSE s

RECURSIVE TrimEnd(_)
TrimEnd(s) ==
    IF s # <<>> /\ IsWhitespace(s[Len(s)])
    THEN TrimEnd(SubSeq(s, 1, Len(s) - 1))
    ELSE s

Trim(s) == TrimEnd(TrimStart(s))

\* the maximal non-whitespace substrings of s, in order
RECURSIVE SplitFrom(_, _, _)
SplitFrom(s, cur, acc) ==
    IF s = <<>>
    THEN IF cur = <<>> THEN acc ELSE Append(acc, cur)
    ELSE IF IsWhitespace(Head(s))
         THEN SplitFrom(Tail(s), <<>>, IF cur = <<>> THEN acc ELSE Append(acc, cur))
         ELSE SplitFrom(Tail(s), Append(cur, Head(s)), acc)

SplitWhitespace(s) == SplitFrom(s, <<>>, <<>>)

RECURSIVE ParseDigits(_, _)
ParseDigits(s, acc) ==
    IF s = <<>> THEN [ok |-> TRUE, val |-> acc]
    ELSE IF ~IsDigit(Head(s)) THEN [ok |-> FALSE, val |-> U32(0)]
    ELSE LET n == MulAdd10(acc, DigitVal(Head(s)))
         IN  IF n.ok THEN ParseDigits(Tail(s), n.val)
             ELSE [ok |-> FALSE, val |-> U32(0)]

\* str::parse::<u32>: an optional '+', then one or more decimal digits whose
\* value fits 32 bits; no whitespace, no '-'
ParseU32(s) ==
    IF s = <<>> THEN [ok |-> FALSE, val |-> U32(0)]
    ELSE IF Len(s) = 1 /\ Head(s) \in {"+", "-"} THEN [ok |-> FALSE, val |-> U32(0)]
    ELSE IF Head(s) = "+" THEN ParseDigits(Tail(s), U32(0))
    ELSE ParseDigits(s, U32(0))

RECURSIVE to_string_acc(_, _)
to_string_acc(v, acc) ==
    LET d == DivMod10(v)
        out == <<Digits[d.r + 1]>> \o acc
    IN  IF d.q = U32(0) THEN out ELSE to_string_acc(d.q, out)

\* u32::to_string / format!("{}", n): decimal, no sign, no leading zeros
to_string(v) == to_string_acc(v, <<>>)

----------------------------------------------------------------------------
(* Results: Result<T, Error>, and a panic that unwinds out of the call     *)

Ok(tag, num) == [kind |-> "Ok", tag |-> tag, num |-> num, inner |-> <<>>]

OkUnit == Ok("unit", <<>>)

\* Error::Io, made from the OS error by `?`
IoErr(errno) == [kind |-> "Io", tag |-> errno, num |-> <<>>, inner |-> <<>>]

\* Error::Unexpected(message); inner lists the failures the message prints
Unexpected(tag, inner) ==
    [kind |-> "Unexpected", tag |-> tag, num |-> <<>>, inner |-> inner]

\* panic!(..): the call does not return to its caller
Panicked == [kind |-> "Panic", tag |-> "panic", num |-> <<>>, inner |-> <<>>]

\* what Display prints of an error inside an aggregated message
Shown(e) == [kind |-> e.kind, tag |-> e.tag]

IsErr(r) == r.kind \in {"Io", "Unexpected"}

----------------------------------------------------------------------------
(* The sysfs tree /sys/class/pwm/pwmchip{N}: one chip, one channel pwm{M}  *)

\* the channel number M of the handle
Channel == 0

AttrNames == {"enable", "period", "duty_cycle", "polarity", "capture"}

TxtNormal == <<"n", "o", "r", "m", "a", "l">>

TxtInversed == <<"i", "n", "v", "e", "r", "s", "e", "d">>

NL == <<"\n">>

SP == <<" ">>

\* the attribute directory is absent: no attribute has content
NoAttrs == [a \in AttrNames |-> <<>>]

\* what the kernel shows of a freshly exported channel
DefaultAttrs ==
    [a \in AttrNames |->
        CASE a = "polarity" -> TxtNormal \o NL
          [] a = "capture"  -> <<"0">> \o SP \o <<"0">> \o NL
          [] OTHER          -> <<"0">> \o NL]

\* does the path exist?  "chip" is pwmchip{N}, "pwm" is pwmchip{N}/pwm{M}
Exists(f, path) ==
    CASE path \in {"chip", "npwm", "export", "unexport"} -> f.chip
      [] OTHER -> f.chip /\ f.exported

\* the faults the OS may report in one call, each on one kind of system call
Faults == {"none", "probe", "open", "io"}

\* fs::metadata(path)
metadata(f, path, o) ==
    IF o = "probe" THEN IoErr("EACCES")
    ELSE IF Exists(f, path) THEN OkUnit
    ELSE IoErr("ENOENT")

\* File::create / OpenOptions::write / File::open: sysfs creates no file and
\* truncates none, so the three differ in nothing but the access they ask for
file_open(f, path, mode, o) ==
    IF o = "open" THEN IoErr("EACCES")
    ELSE IF Exists(f, path) THEN OkUnit
    ELSE IoErr("ENOENT")

\* the kernel's store of pwmchip{N}/export
export_store(f, bytes) ==
    LET n == ParseU32(Trim(bytes))
    IN  IF ~n.ok THEN [res |-> IoErr("EINVAL"), fs |-> f]
        ELSE IF n.val # U32(Channel) THEN [res |-> IoErr("ENODEV"), fs |-> f]
        ELSE IF f.exported THEN [res |-> IoErr("EBUSY"), fs |-> f]
        ELSE [res |-> OkUnit,
              fs |-> [f EXCEPT !.exported = TRUE, !.attr = DefaultAttrs]]

\* the kernel's store of pwmchip{N}/unexport
unexport_store(f, bytes) ==
    LET n == ParseU32(Trim(bytes))
    IN  IF ~n.ok THEN [res |-> IoErr("EINVAL"), fs |-> f]
        ELSE IF n.val # U32(Channel) \/ ~f.exported
             THEN [res |-> IoErr("ENODEV"), fs |-> f]
        ELSE [res |-> OkUnit,
              fs |-> [f EXCEPT !.exported = FALSE, !.attr = NoAttrs]]

\* the kernel's store of a channel attribute: it parses the bytes of the one
\* write and shows the value back as text ending in a newline
attr_store(f, name, bytes) ==
    LET t == Trim(bytes)
        n == ParseU32(t)
        shown == CASE name \in {"period", "duty_cycle"} ->
                        [ok |-> n.ok, text |-> to_string(n.val) \o NL]
                   [] name = "enable" ->
                        [ok |-> t \in {<<"0">>, <<"1">>}, text |-> t \o NL]
                   [] name = "polarity" ->
                        [ok |-> t \in {TxtNormal, TxtInversed}, text |-> t \o NL]
                   [] OTHER -> [ok |-> FALSE, text |-> <<>>]
    IN  IF shown.ok
        THEN [res |-> OkUnit, fs |-> [f EXCEPT !.attr[name] = shown.text]]
        ELSE [res |-> IoErr("EINVAL"), fs |-> f]

\* write_all(bytes) on an open file
write_all(f, path, bytes, o) ==
    IF o = "io" THEN [res |-> IoErr("EIO"), fs |-> f]
    ELSE IF ~Exists(f, path) THEN [res |-> IoErr("ENODEV"), fs |-> f]
    ELSE CASE path = "export"   -> export_store(f, bytes)
           [] path = "unexport" -> unexport_store(f, bytes)
           [] OTHER             -> attr_store(f, path, bytes)

\* read_to_string on an open file
read_to_string(f, path, o) ==
    IF o = "io" THEN [res |-> IoErr("EIO"), text |-> <<>>]
    ELSE IF ~Exists(f, path) THEN [res |-> IoErr("ENODEV"), text |-> <<>>]
    ELSE [res |-> OkUnit, text |-> IF path = "npwm" THEN f.npwm ELSE f.attr[path]]

----------------------------------------------------------------------------
(* src/src/pwm.rs: the blocking variant.  Every operation maps the tree f  *)
(* and the OS fault o of the call to a result res and the tree fs it       *)
(* leaves.                                                                 *)

pwm_file_write(f, name, value, o) ==
    LET c == file_open(f, name, "create", o)
    IN  IF IsErr(c) THEN [res |-> c, fs |-> f]
        ELSE write_all(f, name, value, o)

pwm_file_read(f, name, o) ==
    LET c == file_open(f, name, "read", o)
    IN  IF IsErr(c) THEN [res |-> c, text |-> <<>>]
        ELSE read_to_string(f, name, o)

pwm_file_parse(f, name, o) ==
    LET s == pwm_file_read(f, name, o)
        n == ParseU32(Trim(s.text))
    IN  IF IsErr(s.res) THEN s.res
        ELSE IF n.ok THEN Ok("u32", <<n.val>>)
        ELSE Unexpected("value", <<>>)

\* the tokens that parse, in order; the others are dropped
RECURSIVE ParsedTokens(_)
ParsedTokens(tokens) ==
    IF tokens = <<>> THEN <<>>
    ELSE LET n == ParseU32(Head(tokens))
         IN  (IF n.ok THEN <<n.val>> ELSE <<>>) \o ParsedTokens(Tail(tokens))

pwm_file_parse_vec(f, name, o) ==
    LET r == pwm_file_read(f, name, o)
    IN  IF IsErr(r.res) THEN [res |-> r.res, vec |-> <<>>]
        ELSE [res |-> OkUnit, vec |-> ParsedTokens(SplitWhitespace(Trim(r.text)))]

PwmChip_new(f, o) ==
    LET m == metadata(f, "chip", o)
    IN  [res |-> m, fs |-> f, log |-> <<>>]

PwmChip_count(f, o) ==
    LET s == pwm_file_read(f, "npwm", o)
        n == ParseU32(Trim(s.text))
    IN  [res |-> IF IsErr(s.res) THEN s.res
                 ELSE IF n.ok THEN Ok("u32", <<n.val>>)
                 ELSE Unexpected("npwm", <<>>),
         fs |-> f, log |-> <<>>]

\* one system call of PwmChip::export: at is the call about to be made, sys
\* what the OS answers, and "ret" says that export has returned res
PwmChip_export_step(at, f, o) ==
    CASE at = "probe" ->
            IF IsErr(metadata(f, "pwm", o))
            THEN [at |-> "open", res |-> OkUnit, fs |-> f, sys |-> metadata(f, "pwm", o)]
            ELSE [at |-> "ret", res |-> OkUnit, fs |-> f, sys |-> metadata(f, "pwm", o)]
      [] at = "open" ->
            LET c == file_open(f, "export", "create", o)
            IN  IF IsErr(c) THEN [at |-> "ret", res |-> c, fs |-> f, sys |-> c]
                ELSE [at |-> "write", res |-> OkUnit, fs |-> f, sys |-> c]
      [] OTHER ->
            LET w == write_all(f, "export", to_string(U32(Channel)), o)
            IN  [at |-> "ret", res |-> w.res, fs |-> w.fs, sys |-> w.res]

\* an unexport that returns without asking the OS for anything
PwmChip_unexport_step_noWrite(at, f, o) ==
    [at |-> "ret", res |-> OkUnit, fs |-> f, sys |-> metadata(f, "pwm", o)]

PwmChip_unexport_step(at, f, o) ==
    CASE at = "probe" ->
            IF ~IsErr(metadata(f, "pwm", o))
            THEN [at |-> "open", res |-> OkUnit, fs |-> f, sys |-> metadata(f, "pwm", o)]
            ELSE [at |-> "ret", res |-> OkUnit, fs |-> f, sys |-> metadata(f, "pwm", o)]
      [] at = "open" ->
            LET c == file_open(f, "unexport", "create", o)
            IN  IF IsErr(c) THEN [at |-> "ret", res |-> c, fs |-> f, sys |-> c]
                ELSE [at |-> "write", res |-> OkUnit, fs |-> f, sys |-> c]
      [] OTHER ->
            LET w == write_all(f, "unexport", to_string(U32(Channel)), o)
            IN  [at |-> "ret", res |-> w.res, fs |-> w.fs, sys |-> w.res]

\* an entry of a call's log: what was done and what it returned
Ev(ev, res) == [ev |-> ev, res |-> res]

\* the caller was at system call `at` with log `log`, and made it: n
Logged(at, log, n) ==
    [at |-> n.at, res |-> n.res, fs |-> n.fs, log |-> Append(log, Ev(at, n.sys))]

\* the caller's next system call after s, unless the call has returned
ThenStep(Step(_, _, _), s, o) ==
    IF s.at = "ret" THEN s ELSE Logged(s.at, s.log, Step(s.at, s.fs, o))

\* a whole export or unexport by one caller: its system calls in order; log
\* lists them with what the OS answered
RunSteps(Step(_, _, _), f, o) ==
    ThenStep(Step, ThenStep(Step, ThenStep(Step,
        [at |-> "probe", res |-> OkUnit, fs |-> f, log |-> <<>>], o), o), o)

PwmChip_export(f, o) == RunSteps(PwmChip_export_step, f, o)

PwmChip_unexport(f, o) == RunSteps(PwmChip_unexport_step, f, o)

Pwm_new(f, o) == PwmChip_new(f, o)

Pwm_export(f, o) == PwmChip_export(f, o)

Pwm_unexport(f, o) == PwmChip_unexport(f, o)

\* a with_exported that reports the unexport failure alone when both fail
WithExportedResult_dropsWork(work, u) ==
    [res |-> IF u.res.kind = "Ok" THEN work ELSE u.res,
     fs |-> u.fs,
     log |-> <<Ev("export", OkUnit), Ev("work", work), Ev("unexport", u.res)>>]

\* with_exported: work is what the closure returns, or Panicked; o.exp and
\* o.unexp are the OS faults of the export and of the unexport; log lists the
\* steps taken with what each returned.
\* The match on what the closure returned (work) and on what unexport
\* returned (u)
WithExportedResult(work, u) ==
    [res |-> IF work.kind = "Ok" THEN u.res
             ELSE IF u.res.kind = "Ok" THEN work
             ELSE Unexpected("aggregate", <<Shown(u.res), Shown(work)>>),
     fs |-> u.fs,
     log |-> <<Ev("export", OkUnit), Ev("work", work), Ev("unexport", u.res)>>]

\* a with_exported that goes on to the work and the unexport whatever export
\* returned
Pwm_with_exported_after_noEarlyReturn(e, work, o) ==
    LET r == WithExportedResult(work, Pwm_unexport(e.fs, o.unexp))
    IN  [r EXCEPT !.log[1] = Ev("export", e.res)]

\* with_exported once export has returned e
Pwm_with_exported_after(e, work, o) ==
    IF IsErr(e.res) THEN [res |-> e.res, fs |-> e.fs, log |-> <<Ev("export", e.res)>>]
    ELSE IF work.kind = "Panic"
         THEN [res |-> Panicked, fs |-> e.fs,
               log |-> <<Ev("export", e.res), Ev("work", work)>>]
    ELSE WithExportedResult(work, Pwm_unexport(e.fs, o.unexp))

Pwm_with_exported(f, work, o) ==
    Pwm_with_exported_after(Pwm_export(f, o.exp), work, o)

Pwm_enable(f, enable, o) ==
    LET w == pwm_file_write(f, "enable", to_string(U32(IF enable THEN 1 ELSE 0)), o)
    IN  [res |-> w.res, fs |-> w.fs, log |-> <<>>]

Pwm_get_enabled(f, o) ==
    LET s == pwm_file_read(f, "enable", o)
    IN  [res |-> IF IsErr(s.res) THEN s.res
                 ELSE IF Trim(s.text) = <<"1">> THEN Ok("true", <<>>)
                 ELSE IF Trim(s.text) = <<"0">> THEN Ok("false", <<>>)
                 ELSE Panicked,
         fs |-> f, log |-> <<>>]

Pwm_get_duty_cycle_ns(f, o) ==
    [res |-> pwm_file_parse(f, "duty_cycle", o), fs |-> f, log |-> <<>>]

\* a get_capture that takes the first two of two or more values
Pwm_get_capture_atLeastTwo(f, o) ==
    LET t == pwm_file_parse_vec(f, "capture", o)
    IN  [res |-> IF IsErr(t.res) THEN t.res
                 ELSE IF Len(t.vec) >= 2 THEN Ok("pair", <<t.vec[1], t.vec[2]>>)
                 ELSE Unexpected("capture", <<>>),
         fs |-> f, log |-> <<>>]

Pwm_get_capture(f, o) ==
    LET t == pwm_file_parse_vec(f, "capture", o)
    IN  [res |-> IF IsErr(t.res) THEN t.res
                 ELSE IF Len(t.vec) = 2 THEN Ok("pair", <<t.vec[1], t.vec[2]>>)
                 ELSE Unexpected("capture", <<>>),
         fs |-> f, log |-> <<>>]

Pwm_set_duty_cycle_ns(f, duty_cycle_ns, o) ==
    LET w == pwm_file_write(f, "duty_cycle", to_string(duty_cycle_ns), o)
    IN  [res |-> w.res, fs |-> w.fs, log |-> <<>>]

Pwm_get_period_ns(f, o) ==
    [res |-> pwm_file_parse(f, "period", o), fs |-> f, log |-> <<>>]

\* the two readings whose quotient get_duty_cycle returns
Pwm_get_duty_cycle(f, o) ==
    LET d == Pwm_get_duty_cycle_ns(f, o).res
        p == Pwm_get_period_ns(f, o).res
    IN  [res |-> IF IsErr(d) THEN d
                 ELSE IF IsErr(p) THEN p
                 ELSE Ok("ratio", d.num \o p.num),
         fs |-> f, log |-> <<>>]

Pwm_set_period_ns(f, period_ns, o) ==
    LET w == pwm_file_write(f, "period", to_string(period_ns), o)
    IN  [res |-> w.res, fs |-> w.fs, log |-> <<>>]

Pwm_set_polarity(f, polarity, o) ==
    LET w == pwm_file_write(f, "polarity",
                 IF polarity = "Normal" THEN TxtNormal ELSE TxtInversed, o)
    IN  [res |-> w.res, fs |-> w.fs, log |-> <<>>]

Pwm_get_polarity(f, o) ==
    LET s == pwm_file_read(f, "polarity", o)
    IN  [res |-> IF IsErr(s.res) THEN s.res
                 ELSE IF Trim(s.text) = TxtNormal THEN Ok("Normal", <<>>)
                 ELSE IF Trim(s.text) = TxtInversed THEN Ok("Inverse", <<>>)
                 ELSE Unexpected("polarity", <<>>),
         fs |-> f, log |-> <<>>]

----------------------------------------------------------------------------
(* src/src/pwm_async.rs: the non-blocking variant.  What sync_all returns  *)
(* is dropped wherever it is called, so it is left out.                    *)

pwm_file_wo(f, name, o) == file_open(f, name, "write", o)

pwm_file_ro(f, name, o) == file_open(f, name, "read", o)

\* pwm_file_ro(..)?, then read_to_string(..)?
async_read(f, name, o) ==
    LET c == pwm_file_ro(f, name, o)
    IN  IF IsErr(c) THEN [res |-> c, text |-> <<>>]
        ELSE read_to_string(f, name, o)

\* pwm_file_wo(..)?, then write_all(..)?
async_write(f, name, value, o) ==
    LET c == pwm_file_wo(f, name, o)
    IN  IF IsErr(c) THEN [res |-> c, fs |-> f]
        ELSE write_all(f, name, value, o)

\* a parse of the content as read, untrimmed
pwm_file_parse_async_noTrim(f, name, o) ==
    LET s == async_read(f, name, o)
        n == ParseU32(s.text)
    IN  IF IsErr(s.res) THEN s.res
        ELSE IF n.ok THEN Ok("u32", <<n.val>>)
        ELSE Unexpected("value", <<>>)

pwm_file_parse_async(f, name, o) ==
    LET s == async_read(f, name, o)
        n == ParseU32(Trim(s.text))
    IN  IF IsErr(s.res) THEN s.res
        ELSE IF n.ok THEN Ok("u32", <<n.val>>)
        ELSE Unexpected("value", <<>>)

pwm_capture_parse(f, name, o) ==
    LET r == async_read(f, name, o)
    IN  IF IsErr(r.res) THEN [res |-> r.res, vec |-> <<>>]
        ELSE [res |-> OkUnit, vec |-> ParsedTokens(SplitWhitespace(Trim(r.text)))]

PwmChipAsync_new(f, o) ==
    LET m == metadata(f, "chip", o)
    IN  [res |-> m, fs |-> f, log |-> <<>>]

\* the content is parsed as read, untrimmed
PwmChipAsync_count(f, o) ==
    LET c == file_open(f, "npwm", "read", o)
        s == read_to_string(f, "npwm", o)
        n == ParseU32(s.text)
    IN  [res |-> IF IsErr(c) THEN c
                 ELSE IF IsErr(s.res) THEN s.res
                 ELSE IF n.ok THEN Ok("u32", <<n.val>>)
                 ELSE Unexpected("npwm", <<>>),
         fs |-> f, log |-> <<>>]

\* an export that asks the OS to export whatever the probe says
PwmChipAsync_export_step_noProbe(at, f, o) ==
    CASE at = "probe" ->
            [at |-> "open", res |-> OkUnit, fs |-> f, sys |-> metadata(f, "pwm", o)]
      [] at = "open" ->
            LET c == file_open(f, "export", "create", o)
            IN  IF IsErr(c) THEN [at |-> "ret", res |-> c, fs |-> f, sys |-> c]
                ELSE [at |-> "write", res |-> OkUnit, fs |-> f, sys |-> c]
      [] OTHER ->
            LET w == write_all(f, "export", to_string(U32(Channel)), o)
            IN  [at |-> "ret", res |-> OkUnit, fs |-> w.fs, sys |-> w.res]

\* one system call of PwmChipAsync::export; what write_all returns is dropped
PwmChipAsync_export_step(at, f, o) ==
    CASE at = "probe" ->
            IF IsErr(metadata(f, "pwm", o))
            THEN [at |-> "open", res |-> OkUnit, fs |-> f, sys |-> metadata(f, "pwm", o)]
            ELSE [at |-> "ret", res |-> OkUnit, fs |-> f, sys |-> metadata(f, "pwm", o)]
      [] at = "open" ->
            LET c == file_open(f, "export", "create", o)
            IN  IF IsErr(c) THEN [at |-> "ret", res |-> c, fs |-> f, sys |-> c]
                ELSE [at |-> "write", res |-> OkUnit, fs |-> f, sys |-> c]
      [] OTHER ->
            LET w == write_all(f, "export", to_string(U32(Channel)), o)
            IN  [at |-> "ret", res |-> OkUnit, fs |-> w.fs, sys |-> w.res]

PwmChipAsync_unexport_step(at, f, o) ==
    CASE at = "probe" ->
            IF ~IsErr(metadata(f, "pwm", o))
            THEN [at |-> "open", res |-> OkUnit, fs |-> f, sys |-> metadata(f, "pwm", o)]
            ELSE [at |-> "ret", res |-> OkUnit, fs |-> f, sys |-> metadata(f, "pwm", o)]
      [] at = "open" ->
            LET c == file_open(f, "unexport", "create", o)
            IN  IF IsErr(c) THEN [at |-> "ret", res |-> c, fs |-> f, sys |-> c]
                ELSE [at |-> "write", res |-> OkUnit, fs |-> f, sys |-> c]
      [] OTHER ->
            LET w == write_all(f, "unexport", to_string(U32(Channel)), o)
            IN  [at |-> "ret", res |-> OkUnit, fs |-> w.fs, sys |-> w.res]

PwmChipAsync_export(f, o) == RunSteps(PwmChipAsync_export_step, f, o)

PwmChipAsync_unexport(f, o) == RunSteps(PwmChipAsync_unexport_step, f, o)

PwmAsync_new(f, o) == PwmChipAsync_new(f, o)

PwmAsync_export(f, o) == PwmChipAsync_export(f, o)

PwmAsync_unexport(f, o) == PwmChipAsync_unexport(f, o)

\* with_exported once export has returned e
PwmAsync_with_exported_after(e, work, o) ==
    IF IsErr(e.res) THEN [res |-> e.res, fs |-> e.fs, log |-> <<Ev("export", e.res)>>]
    ELSE IF work.kind = "Panic"
         THEN [res |-> Panicked, fs |-> e.fs,
               log |-> <<Ev("export", e.res), Ev("work", work)>>]
    ELSE WithExportedResult(work, PwmAsync_unexport(e.fs, o.unexp))

PwmAsync_with_exported(f, work, o) ==
    PwmAsync_with_exported_after(PwmAsync_export(f, o.exp), work, o)

PwmAsync_enable(f, enable, o) ==
    LET w == async_write(f, "enable", IF enable THEN <<"1">> ELSE <<"0">>, o)
    IN  [res |-> w.res, fs |-> w.fs, log |-> <<>>]

PwmAsync_get_enabled(f, o) ==
    LET r == pwm_file_parse_async(f, "enable", o)
    IN  [res |-> IF IsErr(r) THEN r
                 ELSE IF r.num[1] = U32(1) THEN Ok("true", <<>>)
                 ELSE IF r.num[1] = U32(0) THEN Ok("false", <<>>)
                 ELSE Panicked,
         fs |-> f, log |-> <<>>]

PwmAsync_get_duty_cycle_ns(f, o) ==
    [res |-> pwm_file_parse_async(f, "duty_cycle", o), fs |-> f, log |-> <<>>]

PwmAsync_get_capture(f, o) ==
    LET t == pwm_capture_parse(f, "capture", o)
    IN  [res |-> IF IsErr(t.res) THEN t.res
                 ELSE IF Len(t.vec) = 2 THEN Ok("pair", <<t.vec[1], t.vec[2]>>)
                 ELSE Unexpected("capture", <<>>),
         fs |-> f, log |-> <<>>]

PwmAsync_set_duty_cycle_ns(f, duty_cycle_ns, o) ==
    LET w == async_write(f, "duty_cycle", to_string(duty_cycle_ns), o)
    IN  [res |-> w.res, fs |-> w.fs, log |-> <<>>]

PwmAsync_get_period_ns(f, o) ==
    [res |-> pwm_file_parse_async(f, "period", o), fs |-> f, log |-> <<>>]

PwmAsync_get_duty_cycle(f, o) ==
    LET d == PwmAsync_get_duty_cycle_ns(f, o).res
        p == PwmAsync_get_period_ns(f, o).res
    IN  [res |-> IF IsErr(d) THEN d
                 ELSE IF IsErr(p) THEN p
                 ELSE Ok("ratio", d.num \o p.num),
         fs |-> f, log |-> <<>>]

PwmAsync_set_period_ns(f, period_ns, o) ==
    LET w == async_write(f, "period", to_string(period_ns), o)
    IN  [res |-> w.res, fs |-> w.fs, log |-> <<>>]

PwmAsync_set_polarity(f, polarity, o) ==
    LET w == async_write(f, "polarity",
                 IF polarity = "Normal" THEN TxtNormal ELSE TxtInversed, o)
    IN  [res |-> w.res, fs |-> w.fs, log |-> <<>>]

PwmAsync_get_polarity(f, o) ==
    LET s == async_read(f, "polarity", o)
    IN  [res |-> IF IsErr(s.res) THEN s.res
                 ELSE IF Trim(s.text) = TxtNormal THEN Ok("Normal", <<>>)
                 ELSE IF Trim(s.text) = TxtInversed THEN Ok("Inverse", <<>>)
                 ELSE Unexpected("polarity", <<>>),
         fs |-> f, log |-> <<>>]

----------------------------------------------------------------------------
(* The operations as one table, for a caller who makes one call at a time  *)

Variants == {"blocking", "async"}

Ops ==
    {"new", "count", "export", "unexport", "with_exported", "enable",
     "get_enabled", "get_duty_cycle_ns", "get_capture", "set_duty_cycle_ns",
     "get_duty_cycle", "get_period_ns", "set_period_ns", "set_polarity",
     "get_polarity"}

\* the operations on the attributes of the channel directory
AttrOps == Ops \ {"new", "count", "export", "unexport", "with_exported"}

\* how many of the values of ValueList the callers write
NValues == 2

ValueList == <<U32(5), U32Max, U32(20000), U32(0)>>

Values == {ValueList[i] : i \in 1..NValues}

\* what the caller-supplied closure may do: return Ok, return a failure, panic
WorkOutcomes == {OkUnit, IoErr("work"), Unexpected("work", <<>>), Panicked}

NoArg == [n |-> U32(0), b |-> FALSE, pol |-> "Normal", work |-> OkUnit]

Args(op) ==
    CASE op = "enable" -> {[NoArg EXCEPT !.b = x] : x \in BOOLEAN}
      [] op \in {"set_period_ns", "set_duty_cycle_ns"} ->
            {[NoArg EXCEPT !.n = x] : x \in Values}
      [] op = "set_polarity" -> {[NoArg EXCEPT !.pol = x] : x \in {"Normal", "Inverse"}}
      [] op = "with_exported" -> {[NoArg EXCEPT !.work = x] : x \in WorkOutcomes}
      [] OTHER -> {NoArg}

\* the OS faults of one call: first on the call's own system calls (for
\* with_exported, those of its export), second on those of the unexport of
\* with_exported
Oracles(op) ==
    CASE op = "new" -> {[first |-> x, second |-> "none"] : x \in {"none", "probe"}}
      [] op \in {"export", "unexport"} ->
            {[first |-> x, second |-> "none"] : x \in Faults}
      [] op = "with_exported" -> {[first |-> x, second |-> y] : x, y \in Faults}
      [] OTHER -> {[first |-> x, second |-> "none"] : x \in {"none", "open", "io"}}

NoFault == [first |-> "none", second |-> "none"]

\* each operation in the variant v the caller uses

Call_new(v, a, f, o) ==
    IF v = "blocking" THEN Pwm_new(f, o.first)
    ELSE PwmAsync_new(f, o.first)

Call_count(v, a, f, o) ==
    IF v = "blocking" THEN PwmChip_count(f, o.first)
    ELSE PwmChipAsync_count(f, o.first)

Call_export(v, a, f, o) ==
    IF v = "blocking" THEN Pwm_export(f, o.first)
    ELSE PwmAsync_export(f, o.first)

Call_unexport(v, a, f, o) ==
    IF v = "blocking" THEN Pwm_unexport(f, o.first)
    ELSE PwmAsync_unexport(f, o.first)

Call_with_exported(v, a, f, o) ==
    IF v = "blocking" THEN Pwm_with_exported(f, a.work, [exp |-> o.first, unexp |-> o.second])
    ELSE PwmAsync_with_exported(f, a.work, [exp |-> o.first, unexp |-> o.second])

Call_enable(v, a, f, o) ==
    IF v = "blocking" THEN Pwm_enable(f, a.b, o.first)
    ELSE PwmAsync_enable(f, a.b, o.first)

Call_get_enabled(v, a, f, o) ==
    IF v = "blocking" THEN Pwm_get_enabled(f, o.first)
    ELSE PwmAsync_get_enabled(f, o.first)

Call_get_duty_cycle_ns(v, a, f, o) ==
    IF v = "blocking" THEN Pwm_get_duty_cycle_ns(f, o.first)
    ELSE PwmAsync_get_duty_cycle_ns(f, o.first)

Call_get_capture(v, a, f, o) ==
    IF v = "blocking" THEN Pwm_get_capture(f, o.first)
    ELSE PwmAsync_get_capture(f, o.first)

Call_set_duty_cycle_ns(v, a, f, o) ==
    IF v = "blocking" THEN Pwm_set_duty_cycle_ns(f, a.n, o.first)
    ELSE PwmAsync_set_duty_cycle_ns(f, a.n, o.first)

Call_get_duty_cycle(v, a, f, o) ==
    IF v = "blocking" THEN Pwm_get_duty_cycle(f, o.first)
    ELSE PwmAsync_get_duty_cycle(f, o.first)

Call_get_period_ns(v, a, f, o) ==
    IF v = "blocking" THEN Pwm_get_period_ns(f, o.first)
    ELSE PwmAsync_get_period_ns(f, o.first)

Call_set_period_ns(v, a, f, o) ==
    IF v = "blocking" THEN Pwm_set_period_ns(f, a.n, o.first)
    ELSE PwmAsync_set_period_ns(f, a.n, o.first)

Call_set_polarity(v, a, f, o) ==
    IF v = "blocking" THEN Pwm_set_polarity(f, a.pol, o.first)
    ELSE PwmAsync_set_polarity(f, a.pol, o.first)

Call_get_polarity(v, a, f, o) ==
    IF v = "blocking" THEN Pwm_get_polarity(f, o.first)
    ELSE PwmAsync_get_polarity(f, o.first)

Apply(v, op, a, f, o) ==
    CASE op = "new" -> Call_new(v, a, f, o)
      [] op = "count" -> Call_count(v, a, f, o)
      [] op = "export" -> Call_export(v, a, f, o)
      [] op = "unexport" -> Call_unexport(v, a, f, o)
      [] op = "with_exported" -> Call_with_exported(v, a, f, o)
      [] op = "enable" -> Call_enable(v, a, f, o)
      [] op = "get_enabled" -> Call_get_enabled(v, a, f, o)
      [] op = "get_duty_cycle_ns" -> Call_get_duty_cycle_ns(v, a, f, o)
      [] op = "get_capture" -> Call_get_capture(v, a, f, o)
      [] op = "set_duty_cycle_ns" -> Call_set_duty_cycle_ns(v, a, f, o)
      [] op = "get_duty_cycle" -> Call_get_duty_cycle(v, a, f, o)
      [] op = "get_period_ns" -> Call_get_period_ns(v, a, f, o)
      [] op = "set_period_ns" -> Call_set_period_ns(v, a, f, o)
      [] op = "set_polarity" -> Call_set_polarity(v, a, f, o)
      [] OTHER -> Call_get_polarity(v, a, f, o)

----------------------------------------------------------------------------
(* The trees a caller may find                                             *)

NpwmTexts ==
    {<<"1", "\n">>,
     <<"1">>,
     <<" ", "2", "\n">>,
     <<>>,
     <<"x">>}

EnableTexts ==
    {<<"1">>,
     <<"0", "\n">>,
     <<"2">>,
     <<>>,
     <<"o", "n">>,
     <<"0", "1">>}

NumberTexts ==
    {<<"2", "0", "0", "0", "0", "\n">>,
     <<"4", "2", "9", "4", "9", "6", "7", "2", "9", "5">>,
     <<"4", "2", "9", "4", "9", "6", "7", "2", "9", "6">>,
     <<"+", "7">>,
     <<"a", "b", "c">>,
     <<>>}

PolarityTexts ==
    {<<"i", "n", "v", "e", "r", "s", "e", "d", "\n">>,
     <<"n", "o", "r", "m", "a", "l">>,
     <<"f", "o", "o">>}

CaptureTexts ==
    {<<"1", "0", "0", "0", "0", "0", "0", " ", "2", "5", "0", "0", "0", "0">>,
     <<"1", "0", "0", "0", "0", "0", "0">>,
     <<"1", "0", "0", "0", "0", "0", "0", " ", "2", "5", "0", "0", "0", "0", " ", "1">>,
     <<"1", "0", "0", "0", "0", "0", "0", " ", "a", "b", "c", " ", "2", "5", "0", "0", "0", "0">>,
     <<" ", "5", " ", "\t", "7", "\n">>,
     <<>>}

Contents(a) ==
    CASE a = "enable" -> EnableTexts
      [] a \in {"period", "duty_cycle"} -> NumberTexts
      [] a = "polarity" -> PolarityTexts
      [] OTHER -> CaptureTexts

Tree(chip, npwm, exported, attr) ==
    [chip |-> chip, npwm |-> npwm, exported |-> exported, attr |-> attr]

\* no chip; a chip with the channel unexported; a chip with the channel
\* exported and one attribute holding some other content than the default
InitTrees ==
    {Tree(FALSE, <<>>, FALSE, NoAttrs)}
    \cup {Tree(TRUE, t, FALSE, NoAttrs) : t \in NpwmTexts}
    \cup UNION {{Tree(TRUE, <<"1">> \o NL, TRUE, [DefaultAttrs EXCEPT ![a] = t]) :
                    t \in Contents(a)} : a \in AttrNames}

----------------------------------------------------------------------------
(* State                                                                   *)

VARIABLES
    fs,     \* the sysfs tree
    call,   \* the last call of the caller who makes one call at a time
    cs      \* the callers who race on export and unexport, system call by
            \* system call

vars == <<fs, call, cs>>

Callers == {1, 2}

\* before any call: pre is the tree the run starts from
NoCall(f) ==
    [op |-> "none", variant |-> "blocking", arg |-> NoArg, o |-> NoFault,
     pre |-> f, res |-> OkUnit, log |-> <<>>]

Idle == [pc |-> "idle", op |-> "none", variant |-> "blocking", res |-> OkUnit]

Init ==
    /\ fs \in InitTrees
    /\ call = NoCall(fs)
    /\ cs = [p \in Callers |-> Idle]

\* a whole call of operation op, in variant v with argument a under the OS
\* faults o, is over: r is its result and the tree it leaves
Called(op, v, a, o, r) ==
    /\ fs' = r.fs
    /\ call' = [op |-> op, variant |-> v, arg |-> a, o |-> o,
                pre |-> fs, res |-> r.res, log |-> r.log]
    /\ UNCHANGED cs

\* the caller takes the result and is free to call again
Return ==
    /\ call.op # "none"
    /\ call' = NoCall(fs)
    /\ UNCHANGED <<fs, cs>>

New ==
    /\ call.op = "none"
    /\ \E v \in Variants, a \in Args("new"), o \in Oracles("new") :
        Called("new", v, a, o, Call_new(v, a, fs, o))

Count ==
    /\ call.op = "none"
    /\ \E v \in Variants, a \in Args("count"), o \in Oracles("count") :
        Called("count", v, a, o, Call_count(v, a, fs, o))

Export ==
    /\ call.op = "none"
    /\ \E v \in Variants, a \in Args("export"), o \in Oracles("export") :
        Called("export", v, a, o, Call_export(v, a, fs, o))

Unexport ==
    /\ call.op = "none"
    /\ \E v \in Variants, a \in Args("unexport"), o \in Oracles("unexport") :
        Called("unexport", v, a, o, Call_unexport(v, a, fs, o))

WithExported ==
    /\ call.op = "none"
    /\ \E v \in Variants, a \in Args("with_exported"), o \in Oracles("with_exported") :
        Called("with_exported", v, a, o, Call_with_exported(v, a, fs, o))

Enable ==
    /\ call.op = "none"
    /\ \E v \in Variants, a \in Args("enable"), o \in Oracles("enable") :
        Called("enable", v, a, o, Call_enable(v, a, fs, o))

GetEnabled ==
    /\ call.op = "none"
    /\ \E v \in Variants, a \in Args("get_enabled"), o \in Oracles("get_enabled") :
        Called("get_enabled", v, a, o, Call_get_enabled(v, a, fs, o))

GetDutyCycleNs ==
    /\ call.op = "none"
    /\ \E v \in Variants, a \in Args("get_duty_cycle_ns"), o \in Oracles("get_duty_cycle_ns") :
        Called("get_duty_cycle_ns", v, a, o, Call_get_duty_cycle_ns(v, a, fs, o))

GetCapture ==
    /\ call.op = "none"
    /\ \E v \in Variants, a \in Args("get_capture"), o \in Oracles("get_capture") :
        Called("get_capture", v, a, o, Call_get_capture(v, a, fs, o))

SetDutyCycleNs ==
    /\ call.op = "none"
    /\ \E v \in Variants, a \in Args("set_duty_cycle_ns"), o \in Oracles("set_duty_cycle_ns") :
        Called("set_duty_cycle_ns", v, a, o, Call_set_duty_cycle_ns(v, a, fs, o))

GetDutyCycle ==
    /\ call.op = "none"
    /\ \E v \in Variants, a \in Args("get_duty_cycle"), o \in Oracles("get_duty_cycle") :
        Called("get_duty_cycle", v, a, o, Call_get_duty_cycle(v, a, fs, o))

GetPeriodNs ==
    /\ call.op = "none"
    /\ \E v \in Variants, a \in Args("get_period_ns"), o \in Oracles("get_period_ns") :
        Called("get_period_ns", v, a, o, Call_get_period_ns(v, a, fs, o))

SetPeriodNs ==
    /\ call.op = "none"
    /\ \E v \in Variants, a \in Args("set_period_ns"), o \in Oracles("set_period_ns") :
        Called("set_period_ns", v, a, o, Call_set_period_ns(v, a, fs, o))

SetPolarity ==
    /\ call.op = "none"
    /\ \E v \in Variants, a \in Args("set_polarity"), o \in Oracles("set_polarity") :
        Called("set_polarity", v, a, o, Call_set_polarity(v, a, fs, o))

GetPolarity ==
    /\ call.op = "none"
    /\ \E v \in Variants, a \in Args("get_polarity"), o \in Oracles("get_polarity") :
        Called("get_polarity", v, a, o, Call_get_polarity(v, a, fs, o))

Next ==
    \/ New
    \/ Count
    \/ Export
    \/ Unexport
    \/ WithExported
    \/ Enable
    \/ GetEnabled
    \/ GetDutyCycleNs
    \/ GetCapture
    \/ SetDutyCycleNs
    \/ GetDutyCycle
    \/ GetPeriodNs
    \/ SetPeriodNs
    \/ SetPolarity
    \/ GetPolarity
    \/ Return

Spec == Init /\ [][Next]_vars

----------------------------------------------------------------------------
(* Callers racing on export and unexport: each makes one call, one system  *)
(* call at a time, and the system calls of the two interleave freely.  The *)
(* OS reports no fault but those the tree itself causes.                   *)

ChipStep(v, op, at, f, o) ==
    IF op = "export"
    THEN IF v = "blocking" THEN PwmChip_export_step(at, f, o)
         ELSE PwmChipAsync_export_step(at, f, o)
    ELSE IF v = "blocking" THEN PwmChip_unexport_step(at, f, o)
         ELSE PwmChipAsync_unexport_step(at, f, o)

RaceTrees ==
    {Tree(TRUE, <<"1">> \o NL, FALSE, NoAttrs),
     Tree(TRUE, <<"1">> \o NL, TRUE, DefaultAttrs)}

RaceInit ==
    /\ fs \in RaceTrees
    /\ call = NoCall(fs)
    /\ cs = [p \in Callers |-> Idle]

\* caller p calls export or unexport
Start(p) ==
    /\ cs[p].pc = "idle"
    /\ \E op \in {"export", "unexport"}, v \in Variants :
        cs' = [cs EXCEPT ![p] = [pc |-> "probe", op |-> op, variant |-> v,
                                 res |-> OkUnit]]
    /\ UNCHANGED <<fs, call>>

\* caller p has made a system call with outcome s; "done" when its call
\* has returned
Stepped(p, s) ==
    /\ fs' = s.fs
    /\ cs' = [cs EXCEPT ![p].pc = IF s.at = "ret" THEN "done" ELSE s.at,
                        ![p].res = s.res]
    /\ UNCHANGED call

\* fs::metadata on the channel directory
Probe(p) ==
    /\ cs[p].pc = "probe"
    /\ Stepped(p, ChipStep(cs[p].variant, cs[p].op, "probe", fs, "none"))

\* File::create on the control attribute
Open(p) ==
    /\ cs[p].pc = "open"
    /\ Stepped(p, ChipStep(cs[p].variant, cs[p].op, "open", fs, "none"))

\* write_all of the channel number to the control attribute
Write(p) ==
    /\ cs[p].pc = "write"
    /\ Stepped(p, ChipStep(cs[p].variant, cs[p].op, "write", fs, "none"))

RaceNext ==
    \E p \in Callers : Start(p) \/ Probe(p) \/ Open(p) \/ Write(p)

RaceSpec == RaceInit /\ [][RaceNext]_vars

----------------------------------------------------------------------------
(* Claims                                                                  *)

\* C1 (scoped-export guarantee): once with_exported has returned or has been
\* left by a panic of the work, the channel directory is absent.  Stated for
\* the calls in which the OS fails no system call, so that only the work's
\* outcome decides.
ScopedExportGuarantee ==
    (call.op = "with_exported" /\ call.o = NoFault) => ~fs.exported

\* the export and the unexport that the with_exported call in `call` made
ExportOfCall ==
    Call_export(call.variant, NoArg, call.pre,
                [first |-> call.o.first, second |-> "none"])

UnexportOfCall ==
    Call_unexport(call.variant, NoArg, ExportOfCall.fs,
                  [first |-> call.o.second, second |-> "none"])

\* C2 (result of with_exported): once export has succeeded and the work has
\* returned, work Ok and unexport Ok give Ok; work failed and unexport Ok give
\* the work's failure unchanged; work Ok and unexport failed give the unexport
\* failure alone; both failed give one failure that carries both.
WithExportedOutcome ==
    (/\ call.op = "with_exported"
     /\ ExportOfCall.res.kind = "Ok"
     /\ call.arg.work.kind # "Panic")
    => LET work == call.arg.work
           u == UnexportOfCall.res
       IN  /\ (work.kind = "Ok" /\ u.kind = "Ok") => call.res = OkUnit
           /\ (IsErr(work) /\ u.kind = "Ok") => call.res = work
           /\ (work.kind = "Ok" /\ IsErr(u)) => call.res = u
           /\ (IsErr(work) /\ IsErr(u)) =>
                 /\ call.res.kind = "Unexpected"
                 /\ \E i \in 1..Len(call.res.inner) : call.res.inner[i] = Shown(u)
                 /\ \E i \in 1..Len(call.res.inner) : call.res.inner[i] = Shown(work)

\* C2 witness: a with_exported whose work failed and whose unexport failed
WithExportedBothFailed ==
    /\ call.op = "with_exported"
    /\ ExportOfCall.res.kind = "Ok"
    /\ IsErr(call.arg.work)
    /\ IsErr(UnexportOfCall.res)
    /\ call.pre.chip

\* did the call whose log is given open or write a control attribute?
Touched(log) == \E i \in 1..Len(log) : log[i].ev \in {"open", "write"}

\* C3 (idempotency): after an export in which the OS failed no system call
\* the channel is exported, and a second export right after an export that
\* left it exported opens and writes nothing, reports success and leaves the
\* tree as it is; an unexport of a channel whose directory is absent opens and
\* writes nothing, reports success and leaves the tree as it is.
IdempotentExport ==
    /\ (call.op = "export" /\ call.o = NoFault /\ call.pre.chip) => fs.exported
    /\ (call.op = "export" /\ fs.exported) =>
          \A v2 \in Variants, x \in Faults \ {"probe"} :
              LET second == Call_export(v2, NoArg, fs, [first |-> x, second |-> "none"])
              IN  /\ second.res = OkUnit
                  /\ second.fs = fs
                  /\ ~Touched(second.log)
    /\ (call.op = "unexport" /\ ~call.pre.exported) =>
          /\ call.res = OkUnit
          /\ fs = call.pre
          /\ ~Touched(call.log)

\* C3 witness: an export that wrote the channel number and exported the channel
ExportedByWrite ==
    /\ call.op = "export"
    /\ ~call.pre.exported
    /\ fs.exported
    /\ Touched(call.log)

\* C4 (failure propagation): an export or unexport whose open of, or write
\* to, the control attribute failed returns an IoFailure.
FailurePropagated ==
    (/\ call.op \in {"export", "unexport"}
     /\ \E i \in 1..Len(call.log) :
            call.log[i].ev \in {"open", "write"} /\ IsErr(call.log[i].res))
    => call.res.kind = "Io"

OtherVariant(v) == IF v = "blocking" THEN "async" ELSE "blocking"

\* the same success value, or the same kind of failure
SameResult(a, b) == a.kind = b.kind /\ (a.kind = "Ok" => a = b)

\* C5 (blocking/non-blocking equivalence): the other variant, called with the
\* same argument on the same tree under the same OS faults, returns the same
\* result and leaves the same tree.
EquivalentVariants ==
    call.op # "none" =>
        LET other == Apply(OtherVariant(call.variant), call.op, call.arg,
                           call.pre, call.o)
        IN  SameResult(call.res, other.res) /\ other.fs = fs

\* C6 (races tolerated): two callers exporting an unexported channel at the
\* same time both report success and leave it exported; two callers
\* unexporting an exported channel both report success and leave it unexported.
RaceTolerated ==
    /\ ((\A p \in Callers : cs[p].pc = "done" /\ cs[p].op = "export")
            /\ ~call.pre.exported)
       => ((\A p \in Callers : cs[p].res.kind = "Ok") /\ fs.exported)
    /\ ((\A p \in Callers : cs[p].pc = "done" /\ cs[p].op = "unexport")
            /\ call.pre.exported)
       => ((\A p \in Callers : cs[p].res.kind = "Ok") /\ ~fs.exported)

\* C7 (export window), for calls in which the OS fails no system call: after
\* an export that made the channel directory every attribute read and write
\* succeeds; after a successful unexport of an exported channel the directory
\* is absent and every attribute read and write, under any OS fault, fails
\* with an IoFailure and leaves the tree as it is.
ExportWindow ==
    /\ (/\ call.op = "export" /\ ~call.pre.exported
        /\ call.o = NoFault /\ call.res.kind = "Ok")
       => \A v2 \in Variants, op2 \in AttrOps : \A a2 \in Args(op2) :
              Apply(v2, op2, a2, fs, NoFault).res.kind = "Ok"
    /\ (/\ call.op = "unexport" /\ call.pre.exported
        /\ call.o = NoFault /\ call.res.kind = "Ok")
       => /\ ~fs.exported
          /\ \A v2 \in Variants, op2 \in AttrOps :
                \A a2 \in Args(op2), o2 \in Oracles(op2) :
                    LET r == Apply(v2, op2, a2, fs, o2)
                    IN  r.res.kind = "Io" /\ r.fs = fs

\* C7 witness: a successful unexport of a channel whose period had been set
UnexportedAfterUse ==
    /\ call.op = "unexport"
    /\ call.pre.exported
    /\ call.o = NoFault
    /\ call.res.kind = "Ok"
    /\ call.pre.attr["period"] = to_string(U32(5)) \o NL
    /\ ~fs.exported

\* C8 (round trip): on an exported channel, when the OS fails no system call,
\* set_period_ns(v) succeeds and get_period_ns in either variant then returns
\* exactly v, whatever the attribute held before; likewise set_duty_cycle_ns
\* and get_duty_cycle_ns.
RoundTrip ==
    /\ (call.op = "set_period_ns" /\ call.pre.exported /\ call.o = NoFault) =>
          /\ call.res = OkUnit
          /\ \A v2 \in Variants :
                Apply(v2, "get_period_ns", NoArg, fs, NoFault).res
                    = Ok("u32", <<call.arg.n>>)
    /\ (call.op = "set_duty_cycle_ns" /\ call.pre.exported /\ call.o = NoFault) =>
          /\ call.res = OkUnit
          /\ \A v2 \in Variants :
                Apply(v2, "get_duty_cycle_ns", NoArg, fs, NoFault).res
                    = Ok("u32", <<call.arg.n>>)

\* C8 witness: the non-blocking set_period_ns wrote a value of fewer digits
\* than the attribute held
ShorterValueWritten ==
    /\ call.op = "set_period_ns"
    /\ call.variant = "async"
    /\ call.pre.exported
    /\ call.o = NoFault
    /\ call.res = OkUnit
    /\ Len(Trim(call.pre.attr["period"])) > Len(to_string(call.arg.n))

\* what get_capture is to return for each content of the capture attribute
ExpectedCapture(text) ==
    CASE text = <<"1", "0", "0", "0", "0", "0", "0", " ", "2", "5", "0", "0", "0", "0">> ->
            Ok("pair", <<U32(1000000), U32(250000)>>)
      [] text = <<"1", "0", "0", "0", "0", "0", "0">> -> Unexpected("capture", <<>>)
      [] text = <<"1", "0", "0", "0", "0", "0", "0", " ", "2", "5", "0", "0", "0", "0", " ", "1">> -> Unexpected("capture", <<>>)
      [] text = <<"1", "0", "0", "0", "0", "0", "0", " ", "a", "b", "c", " ", "2", "5", "0", "0", "0", "0">> ->
            Ok("pair", <<U32(1000000), U32(250000)>>)
      [] text = <<" ", "5", " ", "\t", "7", "\n">> -> Ok("pair", <<U32(5), U32(7)>>)
      [] text = <<"0", " ", "0", "\n">> -> Ok("pair", <<U32(0), U32(0)>>)
      [] OTHER -> Unexpected("capture", <<>>)

\* the tokens of the trimmed text that are unsigned 32-bit decimals
Surviving(text) ==
    LET tokens == SplitWhitespace(Trim(text))
    IN  {i \in 1..Len(tokens) : ParseU32(tokens[i]).ok}

\* C9 (capture decode): a get_capture that read the content returns the pair
\* of the two surviving tokens when exactly two survive and a decode failure
\* otherwise: "1000000 250000" gives (1000000, 250000), "1000000" and
\* "1000000 250000 1" give a decode failure.
CaptureDecode ==
    (call.op = "get_capture" /\ call.o = NoFault /\ call.pre.exported) =>
        /\ call.res = ExpectedCapture(call.pre.attr["capture"])
        /\ call.res.kind = "Ok" <=> Cardinality(Surviving(call.pre.attr["capture"])) = 2

\* C9 witness: three tokens survive and get_capture fails
CaptureThreeTokens ==
    /\ call.op = "get_capture"
    /\ call.o = NoFault
    /\ call.pre.exported
    /\ Cardinality(Surviving(call.pre.attr["capture"])) = 3
    /\ call.res.kind = "Unexpected"

\* C10 (no operation is fatal): get_enabled returns to its caller, with a
\* value or a failure, whatever the enable attribute holds.
GetEnabledReturns ==
    call.op = "get_enabled" => call.res.kind # "Panic"

\* the steps with_exported took, as the log of the call lists them: export
\* alone when it failed, and its failure is what the call returns; otherwise
\* export, then the work (once, with the outcome the caller supplied), then
\* unexport (once)
OrderedSteps ==
    /\ Len(call.log) >= 1
    /\ call.log[1] = Ev("export", ExportOfCall.res)
    /\ IsErr(ExportOfCall.res) =>
          /\ Len(call.log) = 1
          /\ call.res = ExportOfCall.res
          /\ fs = ExportOfCall.fs
    /\ ~IsErr(ExportOfCall.res) =>
          /\ Len(call.log) = 3
          /\ call.log[2] = Ev("work", call.arg.work)
          /\ call.log[3] = Ev("unexport", UnexportOfCall.res)
          /\ fs = UnexportOfCall.fs

\* C11 (step ordering of with_exported), for a work that returns to
\* with_exported with Ok or a failure: if the export fails, with_exported
\* returns that failure and neither the work nor an unexport follows;
\* otherwise the work is invoked once after the export and unexport is
\* attempted once after the work, and nothing is retried.
StepOrdering ==
    (call.op = "with_exported" /\ call.arg.work.kind # "Panic") => OrderedSteps

\* C11 witness: export made the directory, the work failed, and the unexport
\* that followed removed it
WorkThenUnexport ==
    /\ call.op = "with_exported"
    /\ ~call.pre.exported
    /\ ExportOfCall.fs.exported
    /\ call.arg.work.kind = "Io"
    /\ Len(call.log) = 3
    /\ call.log[3] = Ev("unexport", OkUnit)
    /\ ~fs.exported

\* a with_exported whose export failed: the work is not invoked
ExportFailedFirst ==
    /\ call.op = "with_exported"
    /\ call.pre.chip
    /\ IsErr(ExportOfCall.res)
    /\ call.log = <<Ev("export", ExportOfCall.res)>>

====
